---- MODULE Spec2Model ----
(***************************************************************************)
(* Client-side conversation-session engine of the policy advisor page     *)
(* (frontend/app/discover/page.tsx, DiscoverPage).  The React state of    *)
(* the component, the localStorage slot and the requests in flight are    *)
(* the variables; every handler is split at its awaits: one action for    *)
(* the synchronous part up to the await, one for the continuation that    *)
(* runs when the backend call resolves or rejects.                        *)
(***************************************************************************)
EXTENDS Integers, Sequences, FiniteSets, TLC

\* ---------------------------------------------------------------- bounds
MaxSessions == 2        \* session ids the backend can hand out
MaxMsgs == 3            \* a send is started only below this store length
MaxInFlight == 1        \* list, switch, create, delete calls started by the
                        \* user and in flight together
MaxSends == 2           \* sends in flight together

\* ------------------------------------------------------------ value space
NoId == 0                               \* null session id / empty slot
SessionIds == 1..MaxSessions
Undefined == "undefined"                \* an absent string field
None == <<>>                            \* an absent structured field
Some(x) == <<x>>

Policy(id, name) == [id |-> id, name |-> name]
Policies == <<Policy("p1", "n1"), Policy("p2", "n2"),
              Policy("p3", "n3"), Policy("p4", "n4")>>

Texts == {"q1"}                         \* trimmed, non-empty user utterances

Msg(role, content, type, policies, extracted) ==
    [role |-> role, content |-> content, type |-> type,
     policies |-> policies, extracted |-> extracted,
     example |-> Undefined, citation |-> Undefined,
     policy_name |-> Undefined, found |-> None]

GREETING == Msg("assistant", "greeting", "question", None, None)

APOLOGY == Msg("assistant", "Sorry, something went wrong. Please try again.",
               "question", None, None)

\* Stored chat_messages rows as getChatSession returns them.
Row(role, content, type, policies, extracted) ==
    [role |-> role, content |-> content,
     metadata |-> [type |-> type, policies |-> policies,
                   extracted_requirements |-> extracted]]

History(policies) ==
    << Row("user", "q0", Undefined, None, None),
       Row("assistant", "found", "results", Some(policies), Some("req")) >>

\* What getChatSession can return: no rows, or a question and its ranked
\* answer with four policies; ShortHistories has a two-policy answer.
Histories == { <<>>, History(Policies) }
ShortHistories == { <<>>, History(SubSeq(Policies, 1, 2)) }

\* A chat_messages row whose metadata (JSONB, any shape) is given in full;
\* a key the metadata lacks reads as undefined.
Meta(type, policies, extracted, example, citation, policy_name, found) ==
    [type |-> type, policies |-> policies, extracted_requirements |-> extracted,
     example |-> example, citation |-> citation, policy_name |-> policy_name,
     found |-> found]

EmptyMeta == Meta(Undefined, None, None, Undefined, Undefined, Undefined, None)

Record(role, content, metadata) ==
    [role |-> role, content |-> content, metadata |-> metadata]

\* What the response of getChatSession, typed any, can carry: no rows; a
\* question and its ranked answer; an explanation stored with its fields; a
\* user row whose metadata has a type; a row with a role the client does
\* not know; an answer of a kind the client does not know; an answer whose
\* metadata is empty.
StoredRecords ==
    { <<>>,
      << Record("user", "q0", EmptyMeta),
         Record("assistant", "found",
                Meta("results", Some(Policies), Some("req"),
                     Undefined, Undefined, Undefined, None)) >>,
      << Record("user", "q0", EmptyMeta),
         Record("assistant", "means",
                Meta("explanation", None, None, "ex", "cit", "n1", Some(TRUE))) >>,
      << Record("user", "q0",
                Meta("question", None, None, Undefined, Undefined, Undefined, None)),
         Record("assistant", "clarify",
                Meta("question", None, None, Undefined, Undefined, Undefined, None)) >>,
      << Record("system", "note", EmptyMeta),
         Record("assistant", "clarify",
                Meta("question", None, None, Undefined, Undefined, Undefined, None)) >>,
      << Record("user", "q0", EmptyMeta),
         Record("assistant", "chart",
                Meta("chart", None, None, Undefined, Undefined, Undefined, None)) >>,
      << Record("user", "q0", EmptyMeta),
         Record("assistant", "bare", EmptyMeta) >> }

\* Bodies a send can be answered with.
Data(type, message, policies, extracted, uploaded) ==
    [type |-> type, message |-> message, policies |-> policies,
     extracted_requirements |-> extracted, uploaded_policy_ids |-> uploaded,
     example |-> Undefined, citation |-> Undefined,
     policy_name |-> Undefined, found |-> None]

\* A ranked answer, a term explanation and a clarifying question.
SendResponses ==
    { Data("results", "found", Some(Policies), Some("req"), Some(<<"p1", "p2">>)),
      [Data("explanation", "means", None, None, Some(<<"p3">>))
          EXCEPT !.example = "ex", !.citation = "cit",
                 !.policy_name = "n1", !.found = Some(TRUE)],
      Data("question", "clarify", None, None, None) }

VARIABLES
    slot,              \* localStorage[SESSION_KEY]
    messages, loading, sessionId, sessionLoading, sessions, showHistory,
    sessionPolicyIds, selected, comparing, compareResult,
    initPc,            \* position of the mount effect initSession
    initStored,        \* `stored` read by initSession
    serverSessions,    \* rows of chat_sessions on the backend
    nextId,            \* next id the backend hands out
    sends, switches, creates, deletes, compares, lists   \* calls in flight

vars == <<slot, messages, loading, sessionId, sessionLoading, sessions,
          showHistory, sessionPolicyIds, selected, comparing, compareResult,
          initPc, initStored, serverSessions, nextId,
          sends, switches, creates, deletes, compares, lists>>

uiVars == <<messages, loading, sessionId, sessionLoading, sessions,
            showHistory, sessionPolicyIds, selected, comparing, compareResult>>
flightVars == <<sends, switches, creates, deletes, compares, lists>>

\* Session calls in flight (a replacement create made by a delete included).
InFlight ==
    Cardinality(switches) + Cardinality(creates) + Cardinality(deletes) + lists
\* A further gesture may start a call.
Room == InFlight < MaxInFlight

\* ------------------------------------------------------------------ Init
\* State after the first render: the useState initialisers, the slot left
\* by an earlier visit (empty, or session 1 which may since have been
\* deleted on the backend), the mount effect not yet run.
Init ==
    /\ slot \in {NoId, 1}
    /\ messages = <<GREETING>>
    /\ loading = FALSE
    /\ sessionId = NoId
    /\ sessionLoading = TRUE
    /\ sessions = {}
    /\ showHistory = FALSE
    /\ sessionPolicyIds = <<>>
    /\ selected = <<>>
    /\ comparing = FALSE
    /\ compareResult = None
    /\ initPc = "mount"
    /\ initStored = NoId
    /\ serverSessions \in {{}, {1}}
    /\ nextId = 2
    /\ sends = {} /\ switches = {} /\ creates = {} /\ deletes = {}
    /\ compares = {} /\ lists = 0

\* ------------------------------------------------------- pure helpers
\* The rows mapped in reverse order.
reconstructReversed(rows) ==
    [i \in 1..Len(rows) |->
        Msg(rows[Len(rows) + 1 - i].role, rows[Len(rows) + 1 - i].content,
            rows[Len(rows) + 1 - i].metadata.type,
            rows[Len(rows) + 1 - i].metadata.policies,
            rows[Len(rows) + 1 - i].metadata.extracted_requirements)]

\* data.messages.map(...) of initSession and switchSession.
reconstruct(rows) ==
    [i \in 1..Len(rows) |->
        Msg(rows[i].role, rows[i].content, rows[i].metadata.type,
            rows[i].metadata.policies, rows[i].metadata.extracted_requirements)]

\* Toggle without the capacity test.
ToggleNoCap(prev, id, name) ==
    IF \E i \in 1..Len(prev) : prev[i].id = id
    THEN SelectSeq(prev, LAMBDA p : p.id # id)
    ELSE Append(prev, [id |-> id, name |-> name])

\* Toggle with the filter of the removal inverted.
ToggleKeepsMatch(prev, id, name) ==
    IF \E i \in 1..Len(prev) : prev[i].id = id
    THEN SelectSeq(prev, LAMBDA p : p.id = id)
    ELSE IF Len(prev) >= 3 THEN prev
    ELSE Append(prev, [id |-> id, name |-> name])

\* Toggle without the membership test.
ToggleNoLookup(prev, id, name) ==
    IF Len(prev) >= 3 THEN prev
    ELSE Append(prev, [id |-> id, name |-> name])

\* The updater passed to setSelected by toggleCompare.
Toggle(prev, id, name) ==
    IF \E i \in 1..Len(prev) : prev[i].id = id
    THEN SelectSeq(prev, LAMBDA p : p.id # id)
    ELSE IF Len(prev) >= 3 THEN prev
    ELSE Append(prev, [id |-> id, name |-> name])

\* Policy cards on screen: the policies of the rendered results messages.
Rendered ==
    IF sessionLoading THEN {}
    ELSE UNION { {m.policies[1][k] : k \in 1..Len(m.policies[1])} :
                 m \in {messages[i] : i \in {j \in 1..Len(messages) :
                            /\ messages[j].role = "assistant"
                            /\ messages[j].type = "results"
                            /\ messages[j].policies # None}} }

Ids(sel) == [i \in 1..Len(sel) |-> sel[i].id]

\* A reply that ignores the type of the response.
ReplyAsQuestion(data) ==
    [role |-> "assistant", content |-> data.message, type |-> "question",
     policies |-> data.policies, extracted |-> data.extracted_requirements,
     example |-> data.example, citation |-> data.citation,
     policy_name |-> data.policy_name, found |-> data.found]

\* The assistant message sendMessage builds from a response body.
Reply(data) ==
    [role |-> "assistant", content |-> data.message, type |-> data.type,
     policies |-> data.policies, extracted |-> data.extracted_requirements,
     example |-> data.example, citation |-> data.citation,
     policy_name |-> data.policy_name, found |-> data.found]

UserMsg(text) == Msg("user", text, Undefined, None, None)

\* -------------------------------------------------------- initSession
initSession ==
    /\ initPc = "mount"
    /\ initStored' = slot
    /\ initPc' = IF slot # NoId THEN "get" ELSE "create"
    /\ sessionLoading' = TRUE
    /\ UNCHANGED <<slot, messages, loading, sessionId, sessions, showHistory,
                   sessionPolicyIds, selected, comparing, compareResult,
                   serverSessions, nextId, flightVars>>

\* getChatSession(stored) resolved with the rows h.
initGetOk(h) ==
    /\ initPc = "get"
    /\ initStored \in serverSessions
    /\ messages' = IF Len(h) > 0 THEN reconstruct(h) ELSE messages
    /\ sessionId' = initStored
    /\ sessionLoading' = FALSE
    /\ initPc' = "done"
    /\ UNCHANGED <<slot, loading, sessions, showHistory, sessionPolicyIds,
                   selected, comparing, compareResult, initStored,
                   serverSessions, nextId, flightVars>>

\* getChatSession(stored) rejected: the slot is cleared, creation follows.
initGetFail ==
    /\ initPc = "get"
    /\ slot' = NoId
    /\ initPc' = "create"
    /\ UNCHANGED <<uiVars, initStored, serverSessions, nextId, flightVars>>

\* createChatSession() of initSession resolved.
initCreateOk ==
    /\ initPc = "create"
    /\ nextId <= MaxSessions
    /\ slot' = nextId
    /\ sessionId' = nextId
    /\ serverSessions' = serverSessions \cup {nextId}
    /\ nextId' = nextId + 1
    /\ sessionLoading' = FALSE
    /\ initPc' = "done"
    /\ UNCHANGED <<messages, loading, sessions, showHistory, sessionPolicyIds,
                   selected, comparing, compareResult, initStored, flightVars>>

\* A rejected creation without the finally block.
initCreateFailKeepsLoading ==
    /\ initPc = "create"
    /\ initPc' = "done"
    /\ UNCHANGED <<slot, uiVars, initStored, serverSessions, nextId, flightVars>>

\* createChatSession() of initSession rejected: stateless.
initCreateFail ==
    /\ initPc = "create"
    /\ sessionLoading' = FALSE
    /\ initPc' = "done"
    /\ UNCHANGED <<slot, messages, loading, sessionId, sessions, showHistory,
                   sessionPolicyIds, selected, comparing, compareResult,
                   initStored, serverSessions, nextId, flightVars>>

Mounted == initPc # "mount"

\* ------------------------------------------------- loadSessionHistory
\* The History button: toggles the dropdown and calls loadSessionHistory.
historyClick ==
    /\ Mounted
    /\ Room
    /\ showHistory' = ~showHistory
    /\ lists' = lists + 1
    /\ UNCHANGED <<slot, messages, loading, sessionId, sessionLoading, sessions,
                   sessionPolicyIds, selected, comparing, compareResult,
                   initPc, initStored, serverSessions, nextId,
                   sends, switches, creates, deletes, compares>>

\* The X button of the dropdown and the outside-click listener.
closeHistory ==
    /\ Mounted
    /\ showHistory
    /\ showHistory' = FALSE
    /\ UNCHANGED <<slot, messages, loading, sessionId, sessionLoading, sessions,
                   sessionPolicyIds, selected, comparing, compareResult,
                   initPc, initStored, serverSessions, nextId, flightVars>>

loadSessionHistoryOk ==
    /\ lists > 0
    /\ lists' = lists - 1
    /\ sessions' = serverSessions
    /\ UNCHANGED <<slot, messages, loading, sessionId, sessionLoading,
                   showHistory, sessionPolicyIds, selected, comparing,
                   compareResult, initPc, initStored, serverSessions, nextId,
                   sends, switches, creates, deletes, compares>>

loadSessionHistoryFail ==
    /\ lists > 0
    /\ lists' = lists - 1
    /\ sessions' = {}
    /\ UNCHANGED <<slot, messages, loading, sessionId, sessionLoading,
                   showHistory, sessionPolicyIds, selected, comparing,
                   compareResult, initPc, initStored, serverSessions, nextId,
                   sends, switches, creates, deletes, compares>>

\* ------------------------------------------------------ switchSession
\* A click on a row of the dropdown, up to the await.
switchSession(sid) ==
    /\ Mounted
    /\ showHistory
    /\ sid \in sessions
    /\ Room
    /\ sid \notin switches
    /\ showHistory' = FALSE
    /\ loading' = FALSE
    /\ switches' = switches \cup {sid}
    /\ UNCHANGED <<slot, messages, sessionId, sessionLoading, sessions,
                   sessionPolicyIds, selected, comparing, compareResult,
                   initPc, initStored, serverSessions, nextId,
                   sends, creates, deletes, compares, lists>>

\* A switch without the else branch that writes the greeting.
switchSessionOkNoGreeting(sid, h) ==
    /\ sid \in switches
    /\ sid \in serverSessions
    /\ switches' = switches \ {sid}
    /\ messages' = reconstruct(h)
    /\ sessionId' = sid
    /\ slot' = sid
    /\ selected' = <<>>
    /\ compareResult' = None
    /\ compares' = {[c EXCEPT !.switched = TRUE] : c \in compares}
    /\ UNCHANGED <<loading, sessionLoading, sessions, showHistory,
                   sessionPolicyIds, comparing, initPc, initStored,
                   serverSessions, nextId,
                   sends, creates, deletes, lists>>

\* getChatSession(sid) resolved with the rows h.  (The compare calls in
\* flight are marked as overtaken by a switch: history bookkeeping only,
\* nothing the handlers read.)
switchSessionOk(sid, h) ==
    /\ sid \in switches
    /\ sid \in serverSessions
    /\ switches' = switches \ {sid}
    /\ messages' = IF Len(h) > 0 THEN reconstruct(h) ELSE <<GREETING>>
    /\ sessionId' = sid
    /\ slot' = sid
    /\ selected' = <<>>
    /\ compareResult' = None
    /\ compares' = {[c EXCEPT !.switched = TRUE] : c \in compares}
    /\ UNCHANGED <<loading, sessionLoading, sessions, showHistory,
                   sessionPolicyIds, comparing, initPc, initStored,
                   serverSessions, nextId,
                   sends, creates, deletes, lists>>

\* A failed switch that clears the selection and the result all the same.
switchSessionFailClears(sid) ==
    /\ sid \in switches
    /\ switches' = switches \ {sid}
    /\ selected' = <<>>
    /\ compareResult' = None
    /\ UNCHANGED <<slot, messages, loading, sessionId, sessionLoading, sessions,
                   showHistory, sessionPolicyIds, comparing,
                   initPc, initStored, serverSessions, nextId,
                   sends, creates, deletes, compares, lists>>

switchSessionFail(sid) ==
    /\ sid \in switches
    /\ switches' = switches \ {sid}
    /\ UNCHANGED <<slot, uiVars, initPc, initStored, serverSessions, nextId,
                   sends, creates, deletes, compares, lists>>

\* ---------------------------------------------------- startNewSession
\* A call in flight of createChatSession made by startNewSession; forDelete
\* is the session whose deletion made the call (NoId for the Plus button).
CreateCall(forDelete) == [forDelete |-> forDelete]

startNewSession ==
    /\ Mounted
    /\ Room
    /\ CreateCall(NoId) \notin creates
    /\ showHistory' = FALSE
    /\ creates' = creates \cup {CreateCall(NoId)}
    /\ UNCHANGED <<slot, messages, loading, sessionId, sessionLoading, sessions,
                   sessionPolicyIds, selected, comparing, compareResult,
                   initPc, initStored, serverSessions, nextId,
                   sends, switches, deletes, compares, lists>>

\* A successful creation that also forgets the accumulated policy ids.
startNewSessionOkResetsIds(c) ==
    /\ c \in creates
    /\ nextId <= MaxSessions
    /\ creates' = creates \ {c}
    /\ slot' = nextId
    /\ sessionId' = nextId
    /\ serverSessions' = serverSessions \cup {nextId}
    /\ nextId' = nextId + 1
    /\ messages' = <<GREETING>>
    /\ selected' = <<>>
    /\ compareResult' = None
    /\ sessionPolicyIds' = <<>>
    /\ UNCHANGED <<loading, sessionLoading, sessions, showHistory,
                   comparing, initPc, initStored,
                   sends, switches, deletes, compares, lists>>

\* A successful creation that keeps the selection.
startNewSessionOkKeepsSelected(c) ==
    /\ c \in creates
    /\ nextId <= MaxSessions
    /\ creates' = creates \ {c}
    /\ slot' = nextId
    /\ sessionId' = nextId
    /\ serverSessions' = serverSessions \cup {nextId}
    /\ nextId' = nextId + 1
    /\ messages' = <<GREETING>>
    /\ compareResult' = None
    /\ UNCHANGED <<loading, sessionLoading, sessions, showHistory,
                   sessionPolicyIds, selected, comparing, initPc, initStored,
                   sends, switches, deletes, compares, lists>>

startNewSessionOk(c) ==
    /\ c \in creates
    /\ nextId <= MaxSessions
    /\ creates' = creates \ {c}
    /\ slot' = nextId
    /\ sessionId' = nextId
    /\ serverSessions' = serverSessions \cup {nextId}
    /\ nextId' = nextId + 1
    /\ messages' = <<GREETING>>
    /\ selected' = <<>>
    /\ compareResult' = None
    /\ UNCHANGED <<loading, sessionLoading, sessions, showHistory,
                   sessionPolicyIds, comparing, initPc, initStored,
                   sends, switches, deletes, compares, lists>>

\* A failed creation that forgets the active session and the slot.
startNewSessionFailForgets(c) ==
    /\ c \in creates
    /\ creates' = creates \ {c}
    /\ messages' = <<GREETING>>
    /\ sessionId' = NoId
    /\ slot' = NoId
    /\ UNCHANGED <<loading, sessionLoading, sessions,
                   showHistory, sessionPolicyIds, selected, comparing,
                   compareResult, initPc, initStored, serverSessions, nextId,
                   sends, switches, deletes, compares, lists>>

\* A failed creation that writes the id it expected into the slot.
startNewSessionFailWritesSlot(c) ==
    /\ c \in creates
    /\ creates' = creates \ {c}
    /\ messages' = <<GREETING>>
    /\ slot' = nextId
    /\ UNCHANGED <<loading, sessionId, sessionLoading, sessions,
                   showHistory, sessionPolicyIds, selected, comparing,
                   compareResult, initPc, initStored, serverSessions, nextId,
                   sends, switches, deletes, compares, lists>>

startNewSessionFail(c) ==
    /\ c \in creates
    /\ creates' = creates \ {c}
    /\ messages' = <<GREETING>>
    /\ UNCHANGED <<slot, loading, sessionId, sessionLoading, sessions,
                   showHistory, sessionPolicyIds, selected, comparing,
                   compareResult, initPc, initStored, serverSessions, nextId,
                   sends, switches, deletes, compares, lists>>

\* ------------------------------------------------ handleDeleteSession
\* The call in flight keeps the sessionId of the render that made it.
DeleteCall(sid, active) == [sid |-> sid, sessionId |-> active]

handleDeleteSession(sid) ==
    /\ Mounted
    /\ showHistory
    /\ sid \in sessions
    /\ Room
    /\ DeleteCall(sid, sessionId) \notin deletes
    /\ deletes' = deletes \cup {DeleteCall(sid, sessionId)}
    /\ UNCHANGED <<slot, uiVars, initPc, initStored, serverSessions, nextId,
                   sends, switches, creates, compares, lists>>

\* deleteChatSession(sid) resolved; an active session is replaced through
\* startNewSession, whose synchronous part runs in the same step.
handleDeleteSessionOk(d) ==
    /\ d \in deletes
    /\ deletes' = deletes \ {d}
    /\ serverSessions' = serverSessions \ {d.sid}
    /\ sessions' = sessions \ {d.sid}
    /\ IF d.sid = d.sessionId
       THEN /\ showHistory' = FALSE
            /\ creates' = creates \cup {CreateCall(d.sid)}
       ELSE UNCHANGED <<showHistory, creates>>
    /\ UNCHANGED <<slot, messages, loading, sessionId, sessionLoading,
                   sessionPolicyIds, selected, comparing, compareResult,
                   initPc, initStored, nextId,
                   sends, switches, compares, lists>>

\* A failed delete that still drops the row from the directory.
handleDeleteSessionFailDropsRow(d) ==
    /\ d \in deletes
    /\ deletes' = deletes \ {d}
    /\ sessions' = sessions \ {d.sid}
    /\ UNCHANGED <<slot, messages, loading, sessionId, sessionLoading,
                   showHistory, sessionPolicyIds, selected, comparing,
                   compareResult, initPc, initStored, serverSessions, nextId,
                   sends, switches, creates, compares, lists>>

handleDeleteSessionFail(d) ==
    /\ d \in deletes
    /\ deletes' = deletes \ {d}
    /\ UNCHANGED <<slot, uiVars, initPc, initStored, serverSessions, nextId,
                   sends, switches, creates, compares, lists>>

\* -------------------------------------------------------- sendMessage
\* A stateless call whose transcript lacks the new utterance.
SendCallWithoutUtterance(active, text, store, policyIds) ==
    IF active # NoId
    THEN [path |-> "persistent", sessionId |-> active, content |-> text,
          messages |-> <<>>, session_policy_ids |-> <<>>]
    ELSE [path |-> "stateless", sessionId |-> NoId, content |-> text,
          messages |-> [i \in 1..Len(store) |->
                          [role |-> store[i].role, content |-> store[i].content]],
          session_policy_ids |-> policyIds]

\* A call that resends the transcript whatever the mode.
SendCallAlwaysStateless(active, text, store, policyIds) ==
    [path |-> "stateless", sessionId |-> active, content |-> text,
     messages |-> [i \in 1..Len(store) + 1 |->
                     IF i <= Len(store)
                     THEN [role |-> store[i].role, content |-> store[i].content]
                     ELSE [role |-> "user", content |-> text]],
     session_policy_ids |-> policyIds]

\* The call in flight: sendChatMessage(sessionId, content) on the persistent
\* path, discoverChat(messages, session_policy_ids) on the stateless one.
SendCall(active, text, store, policyIds) ==
    IF active # NoId
    THEN [path |-> "persistent", sessionId |-> active, content |-> text,
          messages |-> <<>>, session_policy_ids |-> <<>>]
    ELSE [path |-> "stateless", sessionId |-> NoId, content |-> text,
          messages |-> [i \in 1..Len(store) + 1 |->
                          IF i <= Len(store)
                          THEN [role |-> store[i].role, content |-> store[i].content]
                          ELSE [role |-> "user", content |-> text]],
          session_policy_ids |-> policyIds]

\* sendMessage up to the await; the empty text and loading return early.
sendMessage(text) ==
    /\ Mounted
    /\ text # ""
    /\ ~loading
    /\ Len(messages) < MaxMsgs
    /\ Cardinality(sends) < MaxSends
    /\ SendCall(sessionId, text, messages, sessionPolicyIds) \notin sends
    /\ messages' = Append(messages, UserMsg(text))
    /\ loading' = TRUE
    /\ sends' = sends \cup {SendCall(sessionId, text, messages, sessionPolicyIds)}
    /\ UNCHANGED <<slot, sessionId, sessionLoading, sessions, showHistory,
                   sessionPolicyIds, selected, comparing, compareResult,
                   initPc, initStored, serverSessions, nextId,
                   switches, creates, deletes, compares, lists>>

\* A success that skips a reply the store already holds.
sendMessageOkDeduplicates(s, data) ==
    /\ s \in sends
    /\ sends' = sends \ {s}
    /\ sessionPolicyIds' =
          IF data.uploaded_policy_ids # None /\ Len(data.uploaded_policy_ids[1]) > 0
          THEN data.uploaded_policy_ids[1]
          ELSE sessionPolicyIds
    /\ messages' = IF \E i \in 1..Len(messages) : messages[i] = Reply(data)
                   THEN messages
                   ELSE Append(messages, Reply(data))
    /\ loading' = FALSE
    /\ UNCHANGED <<slot, sessionId, sessionLoading, sessions, showHistory,
                   selected, comparing, compareResult,
                   initPc, initStored, serverSessions, nextId,
                   switches, creates, deletes, compares, lists>>

\* The backend call of s resolved with the body data.
sendMessageOk(s, data) ==
    /\ s \in sends
    /\ sends' = sends \ {s}
    /\ sessionPolicyIds' =
          IF data.uploaded_policy_ids # None /\ Len(data.uploaded_policy_ids[1]) > 0
          THEN data.uploaded_policy_ids[1]
          ELSE sessionPolicyIds
    /\ messages' = Append(messages, Reply(data))
    /\ loading' = FALSE
    /\ UNCHANGED <<slot, sessionId, sessionLoading, sessions, showHistory,
                   selected, comparing, compareResult,
                   initPc, initStored, serverSessions, nextId,
                   switches, creates, deletes, compares, lists>>

\* A failure without the finally block.
sendMessageFailKeepsLoading(s) ==
    /\ s \in sends
    /\ sends' = sends \ {s}
    /\ messages' = Append(messages, APOLOGY)
    /\ UNCHANGED <<slot, loading, sessionId, sessionLoading, sessions,
                   showHistory, sessionPolicyIds, selected, comparing,
                   compareResult, initPc, initStored, serverSessions, nextId,
                   switches, creates, deletes, compares, lists>>

\* A failure that takes the user's message back before it apologises.
sendMessageFailRollsBack(s) ==
    /\ s \in sends
    /\ sends' = sends \ {s}
    /\ messages' = Append(SubSeq(messages, 1, Len(messages) - 1), APOLOGY)
    /\ loading' = FALSE
    /\ UNCHANGED <<slot, sessionId, sessionLoading, sessions, showHistory,
                   sessionPolicyIds, selected, comparing, compareResult,
                   initPc, initStored, serverSessions, nextId,
                   switches, creates, deletes, compares, lists>>

\* The backend call of s rejected.
sendMessageFail(s) ==
    /\ s \in sends
    /\ sends' = sends \ {s}
    /\ messages' = Append(messages, APOLOGY)
    /\ loading' = FALSE
    /\ UNCHANGED <<slot, sessionId, sessionLoading, sessions, showHistory,
                   sessionPolicyIds, selected, comparing, compareResult,
                   initPc, initStored, serverSessions, nextId,
                   switches, creates, deletes, compares, lists>>

\* ------------------------------------------------------ toggleCompare
\* The Compare control of a policy card on screen.
toggleCompare(id, name) ==
    /\ Mounted
    /\ Policy(id, name) \in Rendered
    /\ selected' = Toggle(selected, id, name)
    /\ compareResult' = None
    /\ UNCHANGED <<slot, messages, loading, sessionId, sessionLoading, sessions,
                   showHistory, sessionPolicyIds, comparing,
                   initPc, initStored, serverSessions, nextId, flightVars>>

\* ------------------------------------------------------ handleCompare
CompareCall(ids) == [policy_ids |-> ids, switched |-> FALSE]

\* handleCompare without the test of the selection size.
handleCompareUnguarded ==
    /\ Mounted
    /\ ~comparing
    /\ comparing' = TRUE
    /\ compares' = compares \cup {CompareCall(Ids(selected))}
    /\ UNCHANGED <<slot, messages, loading, sessionId, sessionLoading, sessions,
                   showHistory, sessionPolicyIds, selected, compareResult,
                   initPc, initStored, serverSessions, nextId,
                   sends, switches, creates, deletes, lists>>

\* The Compare button (disabled while comparing), up to the await.
handleCompare ==
    /\ Mounted
    /\ ~comparing
    /\ Len(selected) >= 2
    /\ comparing' = TRUE
    /\ compares' = compares \cup {CompareCall(Ids(selected))}
    /\ UNCHANGED <<slot, messages, loading, sessionId, sessionLoading, sessions,
                   showHistory, sessionPolicyIds, selected, compareResult,
                   initPc, initStored, serverSessions, nextId,
                   sends, switches, creates, deletes, lists>>

\* comparePolicies resolved: the table for the ids that were sent.
handleCompareOk(c) ==
    /\ c \in compares
    /\ compares' = compares \ {c}
    /\ compareResult' = Some([policy_ids |-> c.policy_ids])
    /\ comparing' = FALSE
    /\ UNCHANGED <<slot, messages, loading, sessionId, sessionLoading, sessions,
                   showHistory, sessionPolicyIds, selected,
                   initPc, initStored, serverSessions, nextId,
                   sends, switches, creates, deletes, lists>>

handleCompareFail(c) ==
    /\ c \in compares
    /\ compares' = compares \ {c}
    /\ comparing' = FALSE
    /\ UNCHANGED <<slot, messages, loading, sessionId, sessionLoading, sessions,
                   showHistory, sessionPolicyIds, selected, compareResult,
                   initPc, initStored, serverSessions, nextId,
                   sends, switches, creates, deletes, lists>>

\* ---------------------------------------------------------------- Next
\* Startup and the session handlers, with the histories H the backend holds.
NextSession(H) ==
    \/ initSession
    \/ \E h \in H : initGetOk(h)
    \/ initGetFail
    \/ initCreateOk
    \/ initCreateFail
    \/ historyClick
    \/ closeHistory
    \/ loadSessionHistoryOk
    \/ loadSessionHistoryFail
    \/ \E sid \in SessionIds : switchSession(sid)
    \/ \E sid \in SessionIds, h \in H : switchSessionOk(sid, h)
    \/ \E sid \in SessionIds : switchSessionFail(sid)
    \/ startNewSession
    \/ \E c \in creates : startNewSessionOk(c)
    \/ \E c \in creates : startNewSessionFail(c)
    \/ \E sid \in SessionIds : handleDeleteSession(sid)
    \/ \E d \in deletes : handleDeleteSessionOk(d)
    \/ \E d \in deletes : handleDeleteSessionFail(d)

NextSend ==
    \/ \E text \in Texts \cup {""} : sendMessage(text)
    \/ \E s \in sends, data \in SendResponses : sendMessageOk(s, data)
    \/ \E s \in sends : sendMessageFail(s)

NextToggle == \E p \in Rendered : toggleCompare(p.id, p.name)

NextCompare ==
    \/ handleCompare
    \/ \E c \in compares : handleCompareOk(c)
    \/ \E c \in compares : handleCompareFail(c)

Next == NextSession(Histories) \/ NextSend \/ NextToggle \/ NextCompare

Spec == Init /\ [][Next]_vars

\* The conversation engine without the comparison controls.  No action of
\* NextSession or NextSend reads selected, comparing, compareResult or
\* compares, so leaving the controls out removes no behaviour of theirs.
SpecChat == Init /\ [][NextSession(Histories) \/ NextSend]_vars

\* Startup, the New conversation button and the sends.
NextStartup ==
    \/ initSession
    \/ \E h \in Histories : initGetOk(h)
    \/ initGetFail
    \/ initCreateOk
    \/ initCreateFail

NextCreate ==
    \/ startNewSession
    \/ \E c \in creates : startNewSessionOk(c)
    \/ \E c \in creates : startNewSessionFail(c)

SpecSend == Init /\ [][NextStartup \/ NextCreate \/ NextSend]_vars

\* The same with the selection: the answers of a send put cards on screen.
SpecSendSelect ==
    Init /\ [][NextStartup \/ NextCreate \/ NextSend \/ NextToggle]_vars

\* SpecSend where every call of the startup is answered: the promise
\* initSession awaits settles, so its continuation runs.
SpecStartup == SpecSend /\ WF_vars(NextStartup)

\* A backend on which every call fails.  The directory stays empty, so no
\* row can be clicked to switch or delete.
NextDown ==
    \/ initSession
    \/ initGetFail
    \/ initCreateFail
    \/ historyClick
    \/ closeHistory
    \/ loadSessionHistoryFail
    \/ startNewSession
    \/ \E c \in creates : startNewSessionFail(c)
    \/ \E text \in Texts \cup {""} : sendMessage(text)
    \/ \E s \in sends : sendMessageFail(s)

\* Every call made is answered with a failure: the awaited promises reject.
SpecDown ==
    /\ Init
    /\ [][NextDown]_vars
    /\ WF_vars(initGetFail \/ initCreateFail)
    /\ WF_vars(\E s \in sends : sendMessageFail(s))

\* Startup and the session handlers alone.
SpecSession == Init /\ [][NextSession(Histories)]_vars

\* Startup and the session handlers over every shape of stored rows.
SpecRecords == Init /\ [][NextSession(StoredRecords)]_vars

\* The selection with the session handlers.  A send writes none of selected,
\* comparing, compareResult, and the policy cards it can put on screen are
\* those a restored or switched-to history already shows; a comparison never
\* writes selected.
SpecSelect == Init /\ [][NextSession(Histories) \/ NextToggle]_vars

\* The comparison with the selection over the four cards of a restored
\* answer, without the session handlers.
SpecCompareRestored == Init /\ [][NextStartup \/ NextToggle \/ NextCompare]_vars

\* The comparison with the selection and the session handlers, over the
\* two-policy histories.
SpecCompare ==
    Init /\ [][NextSession(ShortHistories) \/ NextToggle \/ NextCompare]_vars

\* ======================================================================
\* Properties
\* ======================================================================
AllHistories == Histories \cup ShortHistories

\* C1: at most one send is in flight at any time: a second sendMessage never
\* starts its backend call before the previous one has resolved.
C1_OneSendInFlight == Cardinality(sends) <= 1

\* C2: a successful switchSession leaves the Selection Set empty and the
\* comparison result null, and a comparePolicies call that was in flight when
\* the switch happened leaves the result null when it resolves.
C2_SwitchClearsComparison ==
    [][ /\ (\E sid \in SessionIds, h \in AllHistories : switchSessionOk(sid, h))
            => (selected' = <<>> /\ compareResult' = None)
        /\ \A c \in compares :
              (c.switched /\ handleCompareOk(c)) => compareResult' = None
      ]_vars

\* C3: when the replacement createSession of a successful delete of the
\* active session has resolved or rejected, the durable slot does not hold
\* the deleted session id.
C3_DeleteClearsSlot ==
    [][ \A c \in creates :
          (c.forDelete # NoId /\ (startNewSessionOk(c) \/ startNewSessionFail(c)))
              => slot' # c.forDelete
      ]_vars

\* C4: while startup is Restoring (sessionLoading) no send has appended a
\* message or called the backend and no switch has replaced the store.
C4_NothingWhileRestoring ==
    sessionLoading => (sends = {} /\ messages = <<GREETING>>)

\* C5: the reply (normal or fallback) of a send issued for session S is not
\* appended when S is no longer the active session as the send resolves.
C5_StaleReplyDiscarded ==
    [][ \A s \in sends :
          (s.sessionId # NoId /\ s.sessionId # sessionId
             /\ (sendMessageFail(s) \/ \E data \in SendResponses : sendMessageOk(s, data)))
              => messages' = messages
      ]_vars

Held(sel) == {sel[i].id : i \in 1..Len(sel)}

\* C6: the Selection Set never has more than 3 entries, and a toggle of an
\* absent id while it has 3 entries leaves it exactly as it was.
C6_SelectionBounded ==
    /\ [](Len(selected) <= 3)
    /\ [][ \A p \in Rendered :
             (Len(selected) = 3 /\ p.id \notin Held(selected)
                /\ toggleCompare(p.id, p.name)) => selected' = selected
         ]_vars

\* A full selection with a fourth policy card on screen.
C6_Witness ==
    /\ Len(selected) = 3
    /\ \E p \in Rendered : p.id \notin Held(selected)

\* C7: a toggle of a present id removes exactly that entry and keeps the
\* others in place, for sizes 1 to 3; a toggle of an absent id below size 3
\* adds exactly that entry at the end.
C7_ToggleExact ==
    [][ \A p \in Rendered :
          toggleCompare(p.id, p.name) =>
            /\ p.id \in Held(selected) =>
                 \E k \in 1..Len(selected) :
                    /\ selected[k].id = p.id
                    /\ selected' = SubSeq(selected, 1, k - 1)
                                     \o SubSeq(selected, k + 1, Len(selected))
            /\ (p.id \notin Held(selected) /\ Len(selected) < 3) =>
                 /\ Len(selected') = Len(selected) + 1
                 /\ SubSeq(selected', 1, Len(selected)) = selected
                 /\ selected'[Len(selected')] = [id |-> p.id, name |-> p.name]
      ]_vars

\* Two entries left in an order that needs the third to have been removed or
\* the first chosen last.
C7_Witness ==
    /\ Len(selected) = 2
    /\ selected[1].id = "p3"
    /\ selected[2].id = "p1"

\* C8: the Selection Set never holds two entries with the same policy id.
C8_NoDuplicateIds ==
    \A i, j \in 1..Len(selected) : i # j => selected[i].id # selected[j].id

\* A selection made in a session created after startup.
C8_Witness ==
    /\ Len(selected) >= 2
    /\ nextId > 2
    /\ initPc = "done"

\* C9: when getChatSession(stored) fails at startup the slot is cleared and
\* creation follows; when the creation succeeds the slot and the active
\* session id hold the new id and the store is the single greeting.
C9_RestoreFailureRecreates ==
    [][ /\ initGetFail => (slot' = NoId /\ initPc' = "create")
        /\ (initStored # NoId /\ initCreateOk) =>
              /\ slot' = nextId
              /\ sessionId' = nextId
              /\ messages' = <<GREETING>>
      ]_vars

\* C10: when getChatSession(stored) succeeds with zero messages, startup
\* completes with the store the single greeting and the stored id active.
C10_EmptyRestoreGreets ==
    [][ initGetOk(<<>>) =>
          (messages' = <<GREETING>> /\ sessionId' = initStored /\ ~sessionLoading')
      ]_vars

\* The role and content of every message of a store, in order.
Transcript(store) ==
    [i \in 1..Len(store) |-> [role |-> store[i].role, content |-> store[i].content]]

\* C11: with no active session id a send makes exactly one call, to the
\* stateless chat operation, with the role and content of every message of
\* the store in store order, then the new user utterance as the last
\* element, together with the accumulated policy ids.
C11_StatelessSendsTranscript ==
    [][ \A text \in Texts :
          (sessionId = NoId /\ sendMessage(text)) =>
             \E s \in sends' :
                /\ sends' \ sends = {s}
                /\ s.path = "stateless"
                /\ Len(s.messages) = Len(messages) + 1
                /\ SubSeq(s.messages, 1, Len(messages)) = Transcript(messages)
                /\ s.messages[Len(s.messages)] = [role |-> "user", content |-> text]
                /\ s.session_policy_ids = sessionPolicyIds
      ]_vars

\* A stateless call in flight that carries an earlier answer and the policy
\* ids that answer returned.
C11_Witness ==
    \E s \in sends :
       /\ s.path = "stateless"
       /\ Len(s.messages) = 3
       /\ s.messages[2].content = "found"
       /\ s.session_policy_ids = <<"p1", "p2">>
       /\ initPc = "done"

\* C12: with an active session id a send makes exactly one call, to the
\* persistent send operation with that session id and the new utterance; it
\* is not a stateless call and carries no prior turn.
C12_ReadySendsUtteranceOnly ==
    [][ \A text \in Texts :
          (sessionId # NoId /\ sendMessage(text)) =>
             \E s \in sends' :
                /\ sends' \ sends = {s}
                /\ s.path = "persistent"
                /\ s.sessionId = sessionId
                /\ s.content = text
                /\ s.messages = <<>>
      ]_vars

\* A persistent call in flight made from a store that held a restored
\* question and answer.
C12_Witness ==
    /\ Len(messages) = 3
    /\ messages[1].content = "q0"
    /\ \E s \in sends : s.path = "persistent" /\ s.sessionId = sessionId

\* Startup is over and there is no active session.
Stateless == initPc = "done" /\ sessionId = NoId

\* C13 (as stated): once startup has ended Stateless the manager stays
\* Stateless, so that every later send takes the stateless path, and the
\* durable slot is never written, whatever operation follows.
C13_StatelessForever ==
    [][ Stateless => (Stateless' /\ slot' = slot) ]_vars

\* C13 (amended): from Stateless, every step other than the success of a
\* later createSession or switchSession leaves the manager Stateless and
\* the slot empty, and a send started there is a stateless call.
C13_StatelessUntilSessionObtained ==
    [][ Stateless =>
          \/ \E c \in creates : startNewSessionOk(c)
          \/ \E sid \in SessionIds, h \in Histories : switchSessionOk(sid, h)
          \/ /\ Stateless'
             /\ slot = NoId
             /\ slot' = NoId
             /\ \A s \in sends' \ sends : s.path = "stateless"
      ]_vars

\* Stateless with a send in flight, a failed restore behind and the
\* directory loaded, so that a switch or a delete can follow.
C13_Witness ==
    /\ Stateless
    /\ initStored # NoId
    /\ sessions # {}
    /\ \E s \in sends : s.path = "stateless"

IdSet(ids) == {ids[i] : i \in 1..Len(ids)}

\* The policy ids a response body carries.
Uploaded(data) ==
    IF data.uploaded_policy_ids = None THEN <<>> ELSE data.uploaded_policy_ids[1]

\* C15: the accumulated policy ids change only when a send made in stateless
\* mode succeeds, and then the ids accumulated before are kept and the ids
\* the response returned are added.
C15_IdsMergedStatelessOnly ==
    [][ /\ sessionPolicyIds' # sessionPolicyIds =>
              \E s \in sends, data \in SendResponses :
                 s.path = "stateless" /\ sendMessageOk(s, data)
        /\ IdSet(sessionPolicyIds) \subseteq IdSet(sessionPolicyIds')
        /\ \A s \in sends, data \in SendResponses :
              sendMessageOk(s, data) =>
                 IdSet(Uploaded(data)) \subseteq IdSet(sessionPolicyIds')
      ]_vars

\* C16: a send whose backend call succeeds appends exactly one message, an
\* assistant message whose kind, policies and extracted requirements are
\* those of the response; when a stateless send's response carries policy
\* ids they become the accumulated ids, and a stateless send passes the
\* accumulated ids.
C16_SuccessAppendsReply ==
    [][ /\ \A s \in sends, data \in SendResponses :
              sendMessageOk(s, data) =>
                 /\ Len(messages') = Len(messages) + 1
                 /\ SubSeq(messages', 1, Len(messages)) = messages
                 /\ messages'[Len(messages')].role = "assistant"
                 /\ messages'[Len(messages')].type = data.type
                 /\ messages'[Len(messages')].policies = data.policies
                 /\ messages'[Len(messages')].extracted = data.extracted_requirements
                 /\ (s.path = "stateless" /\ Uploaded(data) # <<>>) =>
                        sessionPolicyIds' = Uploaded(data)
        /\ \A text \in Texts :
              (sessionId = NoId /\ sendMessage(text)) =>
                 \A s \in sends' \ sends : s.session_policy_ids = sessionPolicyIds
        /\ (\A s \in sends, data \in SendResponses :
               ~(s.path = "stateless" /\ sendMessageOk(s, data))) =>
                  (sessionId = NoId => sessionPolicyIds' = sessionPolicyIds)
      ]_vars

\* A stateless call in flight that passes the ids of the explanation the
\* store ends with before the new utterance.
C16_Witness ==
    /\ Len(messages) = 3
    /\ messages[2].type = "explanation"
    /\ messages[2].policies = None
    /\ \E s \in sends : s.path = "stateless" /\ s.session_policy_ids = <<"p3">>

\* The store holds exactly the records rows, field by field and in order.
HoldsRecords(store, rows) ==
    /\ Len(store) = Len(rows)
    /\ \A i \in 1..Len(rows) :
          /\ store[i].role = rows[i].role
          /\ store[i].content = rows[i].content
          /\ store[i].type = rows[i].metadata.type
          /\ store[i].policies = rows[i].metadata.policies
          /\ store[i].extracted = rows[i].metadata.extracted_requirements

\* C17: right after a successful switchSession, or a startup restore that
\* fetched records, the store is exactly the reconstructed records of the
\* fetched session in the fetched order, with nothing of the store it
\* replaced; a switch to a session without records leaves the single
\* greeting.
C17_StoreReplacedWholesale ==
    [][ /\ \A sid \in SessionIds, h \in Histories :
              switchSessionOk(sid, h) =>
                 IF Len(h) > 0 THEN HoldsRecords(messages', h)
                 ELSE messages' = <<GREETING>>
        /\ \A h \in Histories :
              (Len(h) > 0 /\ initGetOk(h)) => HoldsRecords(messages', h)
      ]_vars

\* The created session 2 is active and shows a fetched question and answer:
\* the records replaced the greeting the creation had left.
C17_Witness ==
    /\ sessionId = 2
    /\ slot = 2
    /\ Len(messages) = 2
    /\ messages[1].content = "q0"
    /\ messages[2].type = "results"

\* The operations that replace the store: a restore that fetched records,
\* a successful switch, a successful create and a failed create.
ReplacesStore ==
    \/ \E h \in Histories : Len(h) > 0 /\ initGetOk(h)
    \/ \E sid \in SessionIds, h \in Histories : switchSessionOk(sid, h)
    \/ \E c \in creates : startNewSessionOk(c)
    \/ \E c \in creates : startNewSessionFail(c)

\* C18: every operation that replaces the store leaves the Selection Set
\* empty.
C18_ReplaceClearsSelection ==
    [][ ReplacesStore => selected' = <<>> ]_vars

\* C19: when the backend call of createSession succeeds, the slot and the
\* active session id both become the new id, the store becomes the single
\* greeting and the Selection Set becomes empty.
C19_CreateSuccess ==
    [][ \A c \in creates :
          startNewSessionOk(c) =>
             /\ nextId \notin serverSessions
             /\ slot' = nextId
             /\ sessionId' = nextId
             /\ messages' = <<GREETING>>
             /\ selected' = <<>>
      ]_vars

\* The created session 2 is active with the greeting and no selection, while
\* a send made in the restored session 1 is still in flight.
C19_Witness ==
    /\ initPc = "done"
    /\ sessionId = 2
    /\ slot = 2
    /\ messages = <<GREETING>>
    /\ selected = <<>>
    /\ creates = {}
    /\ \E s \in sends : s.sessionId = 1

\* C20: when the backend call of createSession fails, the store is reset to
\* the single greeting and the active session id and the slot keep the
\* values they had.
C20_CreateFailure ==
    [][ \A c \in creates :
          startNewSessionFail(c) =>
             /\ messages' = <<GREETING>>
             /\ sessionId' = sessionId
             /\ slot' = slot
      ]_vars

\* Session 1 still active and in the slot with no creation ever having
\* succeeded; the store was reset under a send in flight, whose apology now
\* follows the greeting.
C20_Witness ==
    /\ initPc = "done"
    /\ sessionId = 1
    /\ slot = 1
    /\ nextId = 2
    /\ messages = <<GREETING, APOLOGY>>
    /\ creates = {}

\* C21: a successful deleteSession(id) removes id from the Session
\* Directory and invokes createSession exactly when id is the active session
\* id; when it is not, the active session id, the slot, the store and the
\* Selection Set are unchanged.
C21_DeleteReplacesActive ==
    [][ \A d \in deletes :
          handleDeleteSessionOk(d) =>
             /\ d.sid \notin sessions'
             /\ (d.sid = sessionId) <=> (creates' # creates)
             /\ (d.sid # sessionId) =>
                   UNCHANGED <<sessionId, slot, messages, selected>>
      ]_vars

\* C22: when the backend delete call fails, the session stays in the
\* Session Directory, the active session id, the slot and the store are
\* unchanged, and no replacement session is created.
C22_DeleteFailureIgnored ==
    [][ \A d \in deletes :
          handleDeleteSessionFail(d) =>
             /\ sessions' = sessions
             /\ d.sid \in sessions => d.sid \in sessions'
             /\ UNCHANGED <<sessionId, slot, messages, serverSessions, nextId>>
             /\ creates' = creates
             /\ deletes' = deletes \ {d}
      ]_vars

\* A delete of the active session, listed in the open directory and shown
\* with its restored store, is in flight after startup: the failure the
\* claim is about is the next step of that call.
C22_Witness ==
    /\ initPc = "done"
    /\ sessionId = 1
    /\ slot = 1
    /\ Len(messages) = 2
    /\ \E d \in deletes : d.sid = 1 /\ d.sessionId = 1 /\ d.sid \in sessions

\* Writers of the slot that are pending: the startup between its read of the
\* slot and its end, and the switch, create and delete calls in flight.
PendingWriters ==
    (IF initPc \in {"get", "create"} THEN 1 ELSE 0)
       + Cardinality(switches) + Cardinality(creates) + Cardinality(deletes)

\* C23: the operations that write the slot (startup, create, switch, delete)
\* are serialized: at no time are two of them in flight together.
C23_SlotWritersSerialized == PendingWriters <= 1

\* C24: startup always terminates: whatever the backend answers, the
\* manager leaves Restoring (sessionLoading becomes false and stays false)
\* with the startup over, with an active session id or with none.
C24_StartupTerminates ==
    <>[](initPc = "done" /\ ~sessionLoading)

\* Startup over after the restore and the creation both failed: not
\* Restoring, no active session, the slot cleared.
C24_Witness ==
    /\ initPc = "done"
    /\ ~sessionLoading
    /\ initStored # NoId
    /\ sessionId = NoId
    /\ slot = NoId

\* C25: on a backend where every call fails, a started send eventually
\* clears the in-flight flag with its fallback reply at the end of the
\* store; the flag is set only while a send is in flight, and whenever it
\* is clear a further send can be started.
C25_UsableWhenBackendDown ==
    /\ [](loading => sends # {})
    /\ []((Mounted /\ ~loading /\ Len(messages) < MaxMsgs) =>
             ENABLED sendMessage("q1"))
    /\ loading ~> (~loading /\ messages[Len(messages)] = APOLOGY)

\* A second send in flight after the first one failed and a failed
\* createSession reset the store in between, with no session at all.
C25_Witness ==
    /\ initPc = "done"
    /\ sessionId = NoId
    /\ loading
    /\ messages = <<GREETING, APOLOGY, UserMsg("q1")>>

\* C26: handleCompare with fewer than 2 selected policies does nothing: it
\* makes no call and changes no state; with 2 or 3 selected it makes one
\* call of compare with exactly the selected ids in selection order.
C26_CompareNeedsTwo ==
    /\ [](Len(selected) < 2 => ~ENABLED handleCompare)
    /\ [][ handleCompare =>
             /\ Len(selected) \in {2, 3}
             /\ \E c \in compares' :
                   /\ compares' \ compares = {c}
                   /\ Len(c.policy_ids) = Len(selected)
                   /\ \A i \in 1..Len(selected) : c.policy_ids[i] = selected[i].id
         ]_vars

\* A compare call in flight for three policies, in the order they were
\* selected, which is not the order of the cards.
C26_Witness ==
    \E c \in compares : c.policy_ids = <<"p3", "p1", "p2">>

\* C27: the Selection Set is cleared when the policy list behind it
\* changes: after a send has appended a new results message the Selection
\* Set holds no id selected from an earlier result list.
C27_NewResultsClearSelection ==
    [][ \A s \in sends, data \in SendResponses :
          (sendMessageOk(s, data) /\ data.type = "results") => selected' = <<>>
      ]_vars

\* The message keeps every field of the record.
KeepsRecord(m, r) ==
    /\ m.role = r.role
    /\ m.content = r.content
    /\ m.type = r.metadata.type
    /\ m.policies = r.metadata.policies
    /\ m.extracted = r.metadata.extracted_requirements
    /\ m.found = r.metadata.found
    /\ m.example = r.metadata.example
    /\ m.citation = r.metadata.citation
    /\ m.policy_name = r.metadata.policy_name

\* The store a switch or a restore leaves was reconstructed from the rows h.
ReconstructedFrom(h) ==
    \/ \E sid \in SessionIds : switchSessionOk(sid, h)
    \/ initGetOk(h)

\* C28: reconstruct maps the stored records to exactly one Message per
\* record, in the same order, and each Message keeps the record's role,
\* content, kind, policies, extracted requirements and the explanation
\* fields found, example, citation and source-policy name.
C28_ReconstructLossless ==
    [][ \A h \in StoredRecords :
          (Len(h) > 0 /\ ReconstructedFrom(h)) =>
             /\ Len(messages') = Len(h)
             /\ \A i \in 1..Len(h) : KeepsRecord(messages'[i], h[i])
      ]_vars

Roles == {"user", "assistant"}
HasForeignRole(h) == \E i \in 1..Len(h) : h[i].role \notin Roles

\* C29: reconstruct ends in an error exactly when some record has a role
\* outside {user, assistant}, and then the store is not replaced; without
\* such a record no error is raised, whatever the kinds and payloads are:
\* the store is replaced by one message per record, and a record without a
\* kind gives a message without a kind.
C29_ForeignRoleRejected ==
    [][ \A h \in StoredRecords :
          (Len(h) > 0 /\ ReconstructedFrom(h)) =>
             IF HasForeignRole(h)
             THEN messages' = messages
             ELSE /\ Len(messages') = Len(h)
                  /\ \A i \in 1..Len(h) :
                        h[i].metadata.type = Undefined =>
                           messages'[i].type = Undefined
      ]_vars

\* C30: in every reachable state every message of the store with role user
\* has no kind, those reconstructed from stored records included.
C30_UserMessagesHaveNoKind ==
    \A i \in 1..Len(messages) :
       messages[i].role = "user" => messages[i].type = Undefined

\* The store gained exactly one message at its end.
GrewByOne ==
    /\ Len(messages') = Len(messages) + 1
    /\ SubSeq(messages', 1, Len(messages)) = messages

\* C31: between two replacements the store only grows at its end: a send
\* appends the user's message, its answer or its failure appends one more,
\* each keeping the previous content as an unchanged prefix, also when an
\* identical message is already there; every step that is neither an append
\* nor a replacement leaves the store as it is.
C31_AppendOnly ==
    [][ /\ \A text \in Texts :
              sendMessage(text) =>
                 GrewByOne /\ messages'[Len(messages')] = UserMsg(text)
        /\ \A s \in sends :
              /\ sendMessageFail(s) => GrewByOne
              /\ \A data \in SendResponses :
                    sendMessageOk(s, data) =>
                       GrewByOne /\ messages'[Len(messages')].content = data.message
        /\ ReplacesStore \/ GrewByOne \/ messages' = messages
      ]_vars

\* The same clarifying question twice in the store, as two entries.
C31_Witness ==
    \E i, j \in 1..Len(messages) :
       i < j /\ messages[i] = messages[j] /\ messages[i].content = "clarify"

\* C32: whenever no startup, switch, create or delete is in flight and the
\* active session id is set, the slot holds exactly the active session id.
C32_SlotIsActiveSession ==
    (PendingWriters = 0 /\ initPc = "done" /\ sessionId # NoId) => slot = sessionId

\* C33: whenever the comparison result is non-null it was computed for
\* exactly the ids now in the Selection Set.
C33_ResultMatchesSelection ==
    compareResult # None => compareResult[1].policy_ids = Ids(selected)

\* C34: the store is never empty: in every reachable state it holds at
\* least one message.
C34_StoreNeverEmpty == Len(messages) >= 1

\* Session 1 active after a startup that found no id in the slot, showing
\* the single greeting: it was switched to, and the greeting was written in
\* place of the rows it lacked or by a later reset.
C34_Witness ==
    /\ initPc = "done"
    /\ initStored = NoId
    /\ sessionId = 1
    /\ slot = 1
    /\ messages = <<GREETING>>
    /\ nextId = 2
    /\ InFlight = 0

\* C35: when the get-session call of switchSession fails, the active
\* session id, the slot, the store, the Selection Set and the comparison
\* result are unchanged; all the operation has changed is the history view,
\* closed, and the in-flight flag, reset to false, both at the click.
C35_SwitchFailureChangesNothing ==
    [][ \A sid \in SessionIds :
          /\ switchSession(sid) =>
                /\ ~showHistory'
                /\ ~loading'
                /\ UNCHANGED <<sessionId, slot, messages, selected, compareResult,
                               sessions, sessionPolicyIds, comparing, sessionLoading>>
          /\ switchSessionFail(sid) =>
                /\ UNCHANGED <<sessionId, slot, messages, selected, compareResult>>
                /\ UNCHANGED <<sessions, sessionPolicyIds, comparing, sessionLoading,
                               showHistory, loading>>
      ]_vars

\* A switch to another session in flight, the history view closed by the
\* click, with a selection and a comparison result that the failure has to
\* leave in place.
C35_Witness ==
    /\ initPc = "done"
    /\ ~showHistory
    /\ Len(selected) = 2
    /\ compareResult # None
    /\ \E sid \in switches : sid # sessionId

\* C36: switchSession, startNewSession and handleDeleteSession leave the
\* accumulated policy ids unchanged, at the click and when their calls
\* resolve or reject; a stateless send passes the accumulated ids.
C36_SessionOpsKeepIds ==
    [][ /\ ( \/ \E sid \in SessionIds : switchSession(sid) \/ switchSessionFail(sid)
             \/ \E sid \in SessionIds, h \in Histories : switchSessionOk(sid, h)
             \/ startNewSession
             \/ \E c \in creates : startNewSessionOk(c) \/ startNewSessionFail(c)
             \/ \E sid \in SessionIds : handleDeleteSession(sid)
             \/ \E d \in deletes : handleDeleteSessionOk(d) \/ handleDeleteSessionFail(d) )
            => sessionPolicyIds' = sessionPolicyIds
        /\ \A text \in Texts :
              (sessionId = NoId /\ sendMessage(text)) =>
                 \A s \in sends' \ sends : s.session_policy_ids = sessionPolicyIds
      ]_vars

\* A stateless call in flight that passes ids of an answer which is not in
\* its transcript: the store was replaced after the ids were accumulated.
C36_Witness ==
    \E s \in sends :
       /\ initPc = "done"
       /\ sessionId = NoId
       /\ s.path = "stateless"
       /\ s.session_policy_ids = <<"p1", "p2">>
       /\ s.messages = << [role |-> "assistant", content |-> "greeting"],
                          [role |-> "user", content |-> "q1"] >>

====
